---- MODULE Spec2Model ----
(***************************************************************************)
(* Model of the document chatbot: ingestion of uploaded files into the     *)
(* Chroma collection (app/api/routes/upload.py, app/services/              *)
(* vector_store.py), retrieval (vector_store.search_similar), the query    *)
(* route (app/api/routes/query.py) and the synthesizer                     *)
(* (app/services/synthesis.py), the retriever of app/services/search.py    *)
(* and the chunker chunk_text of upload.py.                                *)
(*                                                                         *)
(* Similarities are integers in hundredths (35 is 0.35).  A text is a      *)
(* sequence of characters; only its length and its prefixes matter here.   *)
(***************************************************************************)
EXTENDS Integers, Sequences, FiniteSets, TLC

VARIABLES
    \* ---- ingestion (upload.py, vector_store.store_text_chunks) ----
    collection,     \* the Chroma collection "docs": id number -> record
    added_ids,      \* log of the collection.add calls: <<id, task>> in call order
    running,        \* the task holding the event loop thread, 0 when none
    pc,             \* pc[t]: where process_single_file of task t stands
    upload,         \* upload[t]: the file task t was given
    n_chunks,       \* n_chunks[t]: len(text_chunks) of the file of task t
    current_size,   \* current_size[t]: the local of store_text_chunks
    idx,            \* idx[t]: the loop index i of store_text_chunks
    store_result,   \* store_result[t]: what store_text_chunks returned
    file_result,    \* file_result[t]: what process_single_file returned
    \* ---- synthesizer (synthesis.summarize_themes) ----
    results,            \* the argument results: a sequence of chunks
    max_tokens,         \* the argument max_tokens
    llm,                \* what client.chat.completions.create will do
    synth_pc,           \* "call" before summarize_themes ran, "returned" after
    filtered_results,   \* the local filtered_results
    sorted_results,     \* the local sorted_results
    context_parts,      \* the local context_parts
    llm_called,         \* TRUE when client.chat.completions.create was called
    outcome,            \* the returned dict
    \* ---- query route (query.ask_question, vector_store.search_similar) ----
    q_source,       \* the parameter source of the request, "" when absent
    q_pc,           \* the stage of the query
    distances,      \* distance (hundredths) of the query to each stored id
    faults,         \* the external calls that raised during this query
    matches,        \* what collection.query returned: its ranked records
    search_result,  \* what search_similar returned
    openai_called,  \* TRUE when the route called the chat completion
    response,       \* what ask_question returned
    \* ---- retriever (search.search_similar) ----
    search_source,      \* the argument source, <<>> when absent
    n_results,          \* the argument n_results
    search_pc,          \* "call", "queried" or "returned"
    retrieved,          \* what query_similar_chunks returned
    source_filtered,    \* the local results after the source filter
    deduped_results,    \* the local deduped_results
    search_return,      \* what search_similar returned
    \* ---- chunker (upload.chunk_text) ----
    text,           \* the argument text: a sequence of characters
    chunk_size,     \* the argument chunk_size
    chunk_pc,       \* "call", "loop" or "returned"
    words,          \* the local words
    chunk_i,        \* the loop variable i
    text_chunks     \* the local chunks, returned at the end

ingest_vars == <<collection, added_ids, running, pc, upload, n_chunks,
                 current_size, idx, store_result, file_result>>

synth_vars == <<results, max_tokens, llm, synth_pc, filtered_results,
                sorted_results, context_parts, llm_called, outcome>>

query_vars == <<q_source, q_pc, distances, faults, matches, search_result,
                openai_called, response>>

search_vars == <<search_source, n_results, search_pc, retrieved,
                 source_filtered, deduped_results, search_return>>

chunk_vars == <<text, chunk_size, chunk_pc, words, chunk_i, text_chunks>>

vars == <<ingest_vars, synth_vars, query_vars, search_vars, chunk_vars>>

\* ---------------------------------------------------------------- bounds
NumTasks == 2
MaxChunks == 2
MaxResults == 11
MaxTokens == 5
MaxStored == 2
MaxRetrieved == 3
MaxTextLen == 5
MaxChunkSize == 3

Tasks == 1..NumTasks

\* ------------------------------------------------------------- ingestion

\* collection.get()['ids'] and its len (vector_store.py line 43)
StoredIds(store) == DOMAIN store

CurrentSizeOffByOne(store) == Cardinality(StoredIds(store)) + 1

CurrentSize(store) == Cardinality(StoredIds(store))

\* collection.add(documents=[..], ids=[..]): Chroma ignores an id that is
\* already in the collection, it neither raises nor replaces the record
CollectionAdd(store, id, rec) ==
    IF id \in DOMAIN store THEN store ELSE (id :> rec) @@ store

\* The suspension points of process_single_file: the coroutine gives the event
\* loop back only at "await file.read()" and when it returns.  Everything from
\* the resumption after the read to the return, store_text_chunks included, is
\* synchronous code.
YieldsEverywhere(p) == TRUE

Yields(p) == p \in {"await_read", "done"}

\* task t may take a step: the event loop runs one coroutine at a time and
\* resumes another only when the running one has yielded
CanRun(t) == running = 0 \/ running = t

Release(t, p) == IF Yields(p) THEN 0 ELSE t

NoStoreResult == [status |-> "none", stored |-> 0]
NoFileResult == [status |-> "none", chunks |-> 0, message |-> "none"]

\* CHUNK_SIZE (upload.py line 23)
CHUNK_SIZE == 50000

\* the strings extract_text_from_file returns instead of text
NoTextMessage == "No text could be extracted from the file."
UnsupportedMessage == "Unsupported file format for: uploads/<hash>.docx"
FailureMessage == "PDF processing failed: <error>"

\* The uploaded files.  A text file is given by the number of words of its
\* text and by whether the text holds the letters "failed"; a blank file
\* holds no text or only whitespace; an unsupported file has an extension
\* the upload route allows and the extractor does not handle (.doc, .docx);
\* an unreadable file makes the reader or the OCR raise.
TextWords == {(c - 1) * CHUNK_SIZE + 1 : c \in 1..MaxChunks}

Files ==
    [kind : {"text"}, words : TextWords, mentions_failed : {FALSE}]
    \cup {[kind |-> "text", words |-> 1, mentions_failed |-> TRUE],
          [kind |-> "blank", words |-> 0, mentions_failed |-> FALSE],
          [kind |-> "unsupported", words |-> 0, mentions_failed |-> FALSE],
          [kind |-> "unreadable", words |-> 0, mentions_failed |-> FALSE]}

\* extract_text_from_file (ocr_service.py lines 64-132): the text, or one of
\* its messages; body is the string, words its number of words and
\* mentions_failed whether its lower case holds "failed"
ExtractTextFromFile(f) ==
    CASE f.kind = "text" ->
            [body |-> "text", words |-> f.words, mentions_failed |-> f.mentions_failed]
      [] f.kind = "blank" ->
            [body |-> NoTextMessage, words |-> 8, mentions_failed |-> FALSE]
      [] f.kind = "unsupported" ->
            [body |-> UnsupportedMessage, words |-> 5, mentions_failed |-> FALSE]
      [] f.kind = "unreadable" ->
            [body |-> FailureMessage, words |-> 4, mentions_failed |-> TRUE]

\* the check of process_single_file on what was extracted (upload.py line
\* 110): nothing, or a string that holds "failed"
ExtractionRejected(extracted) ==
    extracted.words = 0 \/ extracted.mentions_failed

\* the number of chunks chunk_text makes of a text of so many words
\* (upload.py lines 51-64)
ChunkCountFloor(n_words, size) == n_words \div size

ChunkCount(n_words, size) == (n_words + size - 1) \div size

\* the content of chunk i of the file of task t: a run of words of what was
\* extracted
ChunkContent(t, i) == <<t, i, ExtractTextFromFile(upload[t]).body>>

\* the upload route has started one task per file
StartIngest ==
    /\ collection = <<>>
    /\ added_ids = <<>>
    /\ running = 0
    /\ pc = [t \in Tasks |-> "start"]
    /\ upload \in [Tasks -> Files]
    /\ n_chunks = [t \in Tasks |-> 0]
    /\ current_size = [t \in Tasks |-> 0]
    /\ idx = [t \in Tasks |-> 0]
    /\ store_result = [t \in Tasks |-> NoStoreResult]
    /\ file_result = [t \in Tasks |-> NoFileResult]

IdleIngest ==
    /\ collection = <<>>
    /\ added_ids = <<>>
    /\ running = 0
    /\ pc = [t \in Tasks |-> "done"]
    /\ upload = [t \in Tasks |-> [kind |-> "blank", words |-> 0, mentions_failed |-> FALSE]]
    /\ n_chunks = [t \in Tasks |-> 0]
    /\ current_size = [t \in Tasks |-> 0]
    /\ idx = [t \in Tasks |-> 0]
    /\ store_result = [t \in Tasks |-> NoStoreResult]
    /\ file_result = [t \in Tasks |-> NoFileResult]

\* process_single_file up to its first suspension: the filename and extension
\* checks (lines 73-85), then "content = await file.read()"
StartFile(t) ==
    /\ pc[t] = "start"
    /\ CanRun(t)
    /\ \E valid \in BOOLEAN :
        IF valid
        THEN /\ pc' = [pc EXCEPT ![t] = "await_read"]
             /\ file_result' = file_result
        ELSE /\ pc' = [pc EXCEPT ![t] = "done"]
             /\ file_result' = [file_result EXCEPT ![t] = [status |-> "failed", chunks |-> 0, message |-> "none"]]
    /\ running' = Release(t, pc'[t])
    /\ UNCHANGED <<collection, added_ids, upload, n_chunks, current_size, idx, store_result>>
    /\ UNCHANGED <<synth_vars, query_vars, search_vars, chunk_vars>>

\* the resumption after the read (lines 88-138): the size check, the
\* extraction and its check, the chunking; with chunks to store,
\* store_text_chunks is entered and reads the collection size
\* (vector_store.py line 43)
ExtractAndEnterStore(t) ==
    /\ pc[t] = "await_read"
    /\ CanRun(t)
    /\ \E small_enough \in BOOLEAN :
        LET extracted == ExtractTextFromFile(upload[t])
            count == ChunkCount(extracted.words, CHUNK_SIZE)
        IN  IF small_enough /\ ~ExtractionRejected(extracted) /\ count > 0
            THEN /\ pc' = [pc EXCEPT ![t] = "storing"]
                 /\ n_chunks' = [n_chunks EXCEPT ![t] = count]
                 /\ current_size' = [current_size EXCEPT ![t] = CurrentSize(collection)]
                 /\ idx' = [idx EXCEPT ![t] = 0]
                 /\ file_result' = file_result
            ELSE /\ pc' = [pc EXCEPT ![t] = "done"]
                 /\ file_result' = [file_result EXCEPT ![t] = [status |-> "failed", chunks |-> 0, message |-> "none"]]
                 /\ UNCHANGED <<n_chunks, current_size, idx>>
    /\ running' = Release(t, pc'[t])
    /\ UNCHANGED <<collection, added_ids, upload, store_result>>
    /\ UNCHANGED <<synth_vars, query_vars, search_vars, chunk_vars>>

\* one iteration of the loop of store_text_chunks (lines 46-55): embed the
\* chunk and add it under the id chunk_<current_size + i>
AddChunk(t) ==
    /\ pc[t] = "storing"
    /\ CanRun(t)
    /\ idx[t] < n_chunks[t]
    /\ LET id == current_size[t] + idx[t] IN
        /\ collection' = CollectionAdd(collection, id, [content |-> ChunkContent(t, idx[t]), source |-> t])
        /\ added_ids' = Append(added_ids, <<id, t>>)
    /\ idx' = [idx EXCEPT ![t] = idx[t] + 1]
    /\ running' = Release(t, pc[t])
    /\ UNCHANGED <<pc, upload, n_chunks, current_size, store_result, file_result>>
    /\ UNCHANGED <<synth_vars, query_vars, search_vars, chunk_vars>>

\* the store without the records an ingestion wrote under the ids from..to
Without(store, from, to) ==
    [id \in DOMAIN store \ (from..to) |-> store[id]]

AddFailsRollsBack(t) ==
    /\ pc[t] = "storing"
    /\ CanRun(t)
    /\ idx[t] < n_chunks[t]
    /\ collection' = Without(collection, current_size[t], current_size[t] + idx[t] - 1)
    /\ store_result' = [store_result EXCEPT ![t] = [status |-> "error", stored |-> idx[t]]]
    /\ pc' = [pc EXCEPT ![t] = "stored"]
    /\ running' = Release(t, pc'[t])
    /\ UNCHANGED <<added_ids, upload, n_chunks, current_size, idx, file_result>>
    /\ UNCHANGED <<synth_vars, query_vars, search_vars, chunk_vars>>

\* model.encode or collection.add raises in iteration i: the except clause of
\* store_text_chunks returns the error status (lines 60-61); what was added
\* before stays
AddFails(t) ==
    /\ pc[t] = "storing"
    /\ CanRun(t)
    /\ idx[t] < n_chunks[t]
    /\ store_result' = [store_result EXCEPT ![t] = [status |-> "error", stored |-> idx[t]]]
    /\ pc' = [pc EXCEPT ![t] = "stored"]
    /\ running' = Release(t, pc'[t])
    /\ UNCHANGED <<collection, added_ids, upload, n_chunks, current_size, idx, file_result>>
    /\ UNCHANGED <<synth_vars, query_vars, search_vars, chunk_vars>>

\* the loop is over: store_text_chunks returns success (line 58)
StoreReturns(t) ==
    /\ pc[t] = "storing"
    /\ CanRun(t)
    /\ idx[t] = n_chunks[t]
    /\ store_result' = [store_result EXCEPT ![t] = [status |-> "success", stored |-> n_chunks[t]]]
    /\ pc' = [pc EXCEPT ![t] = "stored"]
    /\ running' = Release(t, pc'[t])
    /\ UNCHANGED <<collection, added_ids, upload, n_chunks, current_size, idx, file_result>>
    /\ UNCHANGED <<synth_vars, query_vars, search_vars, chunk_vars>>

\* process_single_file returns after store_text_chunks (lines 138-146): the
\* status is "success" and chunks is len(text_chunks), whatever result holds;
\* result itself goes into the field message
FileReturns(t) ==
    /\ pc[t] = "stored"
    /\ CanRun(t)
    /\ file_result' = [file_result EXCEPT ![t] = [status |-> "success", chunks |-> n_chunks[t],
                                                  message |-> store_result[t].status]]
    /\ pc' = [pc EXCEPT ![t] = "done"]
    /\ running' = Release(t, pc'[t])
    /\ UNCHANGED <<collection, added_ids, upload, n_chunks, current_size, idx, store_result>>
    /\ UNCHANGED <<synth_vars, query_vars, search_vars, chunk_vars>>


\* ----------------------------------------------------------- synthesizer

Max(a, b) == IF a >= b THEN a ELSE b
Min(a, b) == IF a <= b THEN a ELSE b

\* a text of n characters c
Text(c, n) == [i \in 1..n |-> c]

\* content[:max_chars]
Prefix(content, max_chars) == SubSeq(content, 1, Min(Len(content), max_chars))

\* s[:n] of a list
Take(s, n) == SubSeq(s, 1, Min(Len(s), n))

\* top_n = 10 (synthesis.py line 78)
top_n == 10

Similarity(r) == r.meta.similarity

\* the adaptive threshold (lines 74-77), in hundredths
SimilarityThresholdAtTen(res) == IF Len(res) >= 10 THEN 35 ELSE 20

SimilarityThreshold(res) == IF Len(res) > 10 THEN 35 ELSE 20

Passes(res, r) == Similarity(r) >= SimilarityThreshold(res)

\* the r of res with the highest similarity, the first of them
RECURSIVE BestOf(_, _, _)
BestOf(res, k, best) ==
    IF k > Len(res) THEN best
    ELSE BestOf(res, k + 1,
                IF Similarity(res[k]) > Similarity(best) THEN res[k] ELSE best)

FilteredResultsBestEffort(res) ==
    LET kept == SelectSeq(res, LAMBDA r : Passes(res, r)) IN
    IF kept = <<>> /\ res # <<>> THEN <<BestOf(res, 2, res[1])>> ELSE kept

\* filtered_results (line 79)
FilteredResults(res) == SelectSeq(res, LAMBDA r : Passes(res, r))

\* sorted(..., key=similarity, reverse=True) (lines 82-86): a stable sort,
\* elements of equal similarity keep their order
InsertDesc(sorted, r) ==
    LET ahead == Cardinality({k \in 1..Len(sorted) : Similarity(sorted[k]) >= Similarity(r)}) IN
    SubSeq(sorted, 1, ahead) \o <<r>> \o SubSeq(sorted, ahead + 1, Len(sorted))

RECURSIVE SortDescFrom(_, _, _)
SortDescFrom(s, k, acc) ==
    IF k > Len(s) THEN acc ELSE SortDescFrom(s, k + 1, InsertDesc(acc, s[k]))

SortedResults(filtered) == SortDescFrom(filtered, 1, <<>>)

\* chunk_tokens (line 93)
ChunkTokens(content) == Max(Len(content) \div 4, 1)

\* max_chars (line 98)
MaxCharsPlusOne(remaining_tokens) == remaining_tokens * 4 + 4

MaxChars(remaining_tokens) == remaining_tokens * 4

\* a packing loop that skips a chunk that does not fit and goes on
RECURSIVE PackFromSkipping(_, _, _, _, _)
PackFromSkipping(chunks, k, parts, total_tokens, budget) ==
    IF k > Len(chunks) THEN parts
    ELSE LET content == chunks[k].content
             chunk_tokens == ChunkTokens(content)
         IN  IF total_tokens + chunk_tokens > budget
             THEN PackFromSkipping(chunks, k + 1, parts, total_tokens, budget)
             ELSE PackFromSkipping(chunks, k + 1, Append(parts, content),
                                   total_tokens + chunk_tokens, budget)

\* the packing loop (lines 88-105) from chunk k on, with the context_parts
\* and total_tokens reached so far
RECURSIVE PackFrom(_, _, _, _, _)
PackFrom(chunks, k, parts, total_tokens, budget) ==
    IF k > Len(chunks) THEN parts
    ELSE LET content == chunks[k].content
             chunk_tokens == ChunkTokens(content)
             remaining_tokens == budget - total_tokens
         IN  IF total_tokens + chunk_tokens > budget
             THEN IF remaining_tokens > 0
                  THEN Append(parts, Prefix(content, MaxChars(remaining_tokens)))
                  ELSE parts
             ELSE PackFrom(chunks, k + 1, Append(parts, content),
                           total_tokens + chunk_tokens, budget)

ContextParts(sorted, budget) == PackFrom(Take(sorted, top_n), 1, <<>>, 0, budget)

\* used_sources (lines 110-113)
UsedSources(sorted) ==
    LET used == Take(sorted, top_n) IN
    [k \in 1..Len(used) |-> [source |-> used[k].meta.source,
                             similarity |-> used[k].meta.similarity]]

\* format_response (lines 27-54) on a text given as its sequence of
\* sentences: the empty text is returned as it is, otherwise every sentence
\* goes on a line of its own and gets the bullet "- "
format_response(sentences) ==
    IF sentences = <<>> THEN <<>>
    ELSE [k \in 1..Len(sentences) |-> <<"- ", sentences[k]>>]

\* a text the code returns as it is: its sentences without a bullet
Plain(sentences) == [k \in 1..Len(sentences) |-> <<"", sentences[k]>>]

\* the answers the code builds
NoRelevantInformation == <<"No relevant information found.">>
NoRelevantAboveThreshold == <<"No relevant information found above similarity threshold.">>
CouldNotProcess == <<"Could not process any of the search results.">>
NoResponseGenerated == <<"Error: No response generated">>
ApiErrorText == <<"API Error.", "Here's the most relevant excerpt.">>
NoFallbackContent == <<"Error generating response and no fallback content available.">>
\* what the model answers when it answers
ModelAnswer == <<"Cats are mammals.", "Dogs are mammals.">>

SourceList(list) == [is_none |-> FALSE, list |-> list]
SourcesNone == [is_none |-> TRUE, list |-> <<>>]

\* the return of the except clause of the model call (lines 148-153)
FallbackWithoutSources(parts, used_sources) ==
    [answer |-> format_response(ApiErrorText), sources |-> SourceList(<<>>)]

FallbackOutcome(parts, used_sources) ==
    IF parts # <<>>
    THEN [answer |-> format_response(ApiErrorText), sources |-> SourceList(used_sources)]
    ELSE [answer |-> Plain(NoFallbackContent), sources |-> SourceList(<<>>)]

\* the returns of the try block of the model call (lines 141-146)
CompletionOutcome(answer_is_none, used_sources) ==
    IF answer_is_none
    THEN [answer |-> Plain(NoResponseGenerated), sources |-> SourceList(used_sources)]
    ELSE [answer |-> format_response(ModelAnswer), sources |-> SourcesNone]

\* the inputs: a list of n results that alternates two kinds of chunk, a and
\* b; the source of a chunk is its position in the list
Sims == {10, 20, 27, 35, 60}
Lens == {0, 3, 9}
Kinds == Sims \X Lens

Chunk(kind, c, src) ==
    [content |-> Text(c, kind[2]), meta |-> [source |-> src, similarity |-> kind[1]]]

ResultList(n, a, b) ==
    [i \in 1..n |-> IF i % 2 = 1 THEN Chunk(a, "a", i) ELSE Chunk(b, "b", i)]

NoOutcome == [answer |-> <<>>, sources |-> SourceList(<<>>)]

IdleSynth ==
    /\ results = <<>>
    /\ max_tokens = 0
    /\ llm = "text"
    /\ synth_pc = "returned"
    /\ filtered_results = <<>>
    /\ sorted_results = <<>>
    /\ context_parts = <<>>
    /\ llm_called = FALSE
    /\ outcome = NoOutcome

\* summarize_themes is about to be called on some results
CallSynth ==
    /\ \E n \in 0..MaxResults, a \in Kinds, b \in Kinds : results = ResultList(n, a, b)
    /\ max_tokens \in 0..MaxTokens
    /\ llm \in {"text", "none", "raises"}
    /\ synth_pc = "call"
    /\ filtered_results = <<>>
    /\ sorted_results = <<>>
    /\ context_parts = <<>>
    /\ llm_called = FALSE
    /\ outcome = NoOutcome

\* summarize_themes(results, query, max_tokens) (lines 56-157)
SummarizeThemes ==
    /\ synth_pc = "call"
    /\ synth_pc' = "returned"
    /\ LET filtered == FilteredResults(results)
           sorted == SortedResults(filtered)
           parts == ContextParts(sorted, max_tokens)
           used_sources == UsedSources(sorted)
       IN  IF results = <<>>
           THEN /\ outcome' = [answer |-> Plain(NoRelevantInformation), sources |-> SourceList(<<>>)]
                /\ UNCHANGED <<filtered_results, sorted_results, context_parts, llm_called>>
           ELSE IF filtered = <<>>
           THEN /\ outcome' = [answer |-> Plain(NoRelevantAboveThreshold), sources |-> SourceList(<<>>)]
                /\ filtered_results' = filtered
                /\ UNCHANGED <<sorted_results, context_parts, llm_called>>
           ELSE IF parts = <<>>
           THEN /\ outcome' = [answer |-> Plain(CouldNotProcess), sources |-> SourceList(<<>>)]
                /\ filtered_results' = filtered
                /\ sorted_results' = sorted
                /\ context_parts' = parts
                /\ UNCHANGED llm_called
           ELSE /\ filtered_results' = filtered
                /\ sorted_results' = sorted
                /\ context_parts' = parts
                /\ llm_called' = TRUE
                /\ outcome' = IF llm = "raises"
                              THEN FallbackOutcome(parts, used_sources)
                              ELSE CompletionOutcome(llm = "none", used_sources)
    /\ UNCHANGED <<results, max_tokens, llm>>
    /\ UNCHANGED <<ingest_vars, query_vars, search_vars, chunk_vars>>


\* ------------------------------------------------------------ query route

\* k=5, the default of search_similar that ask_question relies on
\* (vector_store.py line 154)
K == 5

Dists == {0, 30, 120}
Sources == {"doc1", "doc2"}
Contents == {"Cats are mammals.", "Dogs are mammals."}
SourceParams == {"", "doc1", "DOC1"}

\* the ids of the store in ascending distance, ties in id order, restricted
\* by the where clause {"source": source} (lines 177-180): the k nearest
Nearer(dist, a, b) == dist[a] < dist[b] \/ (dist[a] = dist[b] /\ a < b)

RECURSIVE RankIds(_, _)
RankIds(ids, dist) ==
    IF ids = {} THEN <<>>
    ELSE LET first == CHOOSE a \in ids : \A b \in ids \ {a} : Nearer(dist, a, b)
         IN  <<first>> \o RankIds(ids \ {first}, dist)

CollectionQuery(store, dist, where, k) ==
    LET ids == {id \in DOMAIN store : where = "" \/ store[id].source = where}
        ranked == Take(RankIds(ids, dist), k)
    IN  [j \in 1..Len(ranked) |->
            [content |-> store[ranked[j]].content,
             source |-> store[ranked[j]].source,
             distance |-> dist[ranked[j]]]]

\* results_list of search_similar (lines 202-230): similarity = 1.0 - distance,
\* then the sort by similarity, high to low
ResultsList(found) ==
    SortedResults([j \in 1..Len(found) |->
        [content |-> found[j].content,
         meta |-> [source |-> found[j].source, similarity |-> 100 - found[j].distance]]])

ErrorDict(message) == [kind |-> "error", message |-> message, items |-> <<>>]
ListResult(items) == [kind |-> "list", message |-> "", items |-> items]
NoSearchResult == [kind |-> "none", message |-> "", items |-> <<>>]

\* what search_similar returns for what collection.query returned (lines
\* 183-230)
SearchReturn(found) ==
    IF found = <<>> THEN ErrorDict("No matching documents found")
    ELSE ListResult(ResultsList(found))

NoResponse == [status_code |-> 0, error |-> "", answer |-> "", sources |-> <<>>]

\* JSONResponse(status_code=500, content={"error": ...})
ErrorResponse(message) ==
    [status_code |-> 500, error |-> message, answer |-> "", sources |-> <<>>]

\* the dict ask_question returns (query.py lines 54-58)
AnswerResponse(summary, items) ==
    [status_code |-> 200, error |-> "", answer |-> summary,
     sources |-> [j \in 1..Len(items) |-> items[j].meta]]

Stores ==
    UNION {[0..(n - 1) -> [content : Contents, source : Sources]] : n \in 0..MaxStored}

IdleQuery ==
    /\ q_source = ""
    /\ q_pc = "DONE"
    /\ distances = <<>>
    /\ faults = {}
    /\ matches = <<>>
    /\ search_result = NoSearchResult
    /\ openai_called = FALSE
    /\ response = NoResponse

\* a request arrives with the store holding what earlier ingestions wrote
ArriveQuery ==
    /\ collection \in Stores
    /\ added_ids = [k \in 1..Cardinality(DOMAIN collection) |-> <<k - 1, 0>>]
    /\ running = 0
    /\ pc = [t \in Tasks |-> "done"]
    /\ upload = [t \in Tasks |-> [kind |-> "blank", words |-> 0, mentions_failed |-> FALSE]]
    /\ n_chunks = [t \in Tasks |-> 0]
    /\ current_size = [t \in Tasks |-> 0]
    /\ idx = [t \in Tasks |-> 0]
    /\ store_result = [t \in Tasks |-> NoStoreResult]
    /\ file_result = [t \in Tasks |-> NoFileResult]
    /\ q_source \in SourceParams
    /\ q_pc = "EMBEDDING"
    /\ distances = <<>>
    /\ faults = {}
    /\ matches = <<>>
    /\ search_result = NoSearchResult
    /\ openai_called = FALSE
    /\ response = NoResponse

\* search_similar, "q_emb = model.encode(query)" (line 169): the embedding
\* fixes the distance of the query to every stored vector; when it raises,
\* search_similar returns the error dict of its except clause (line 233) and
\* ask_question answers 500 (query.py lines 25-29)
EmbedQuery ==
    /\ q_pc = "EMBEDDING"
    /\ \/ /\ distances' \in [DOMAIN collection -> Dists]
          /\ q_pc' = "RETRIEVING"
          /\ UNCHANGED <<faults, search_result, response>>
       \/ /\ faults' = faults \cup {"embedding"}
          /\ search_result' = ErrorDict("Search failed")
          /\ response' = ErrorResponse("Search failed")
          /\ q_pc' = "ERROR"
          /\ UNCHANGED distances
    /\ UNCHANGED <<q_source, matches, openai_called>>
    /\ UNCHANGED <<ingest_vars, synth_vars, search_vars, chunk_vars>>

\* search_similar from collection.query to its return (lines 171-233), and
\* the checks of ask_question on what it got (query.py lines 25-35)
Retrieve ==
    /\ q_pc = "RETRIEVING"
    /\ \/ LET found == CollectionQuery(collection, distances, q_source, K)
              result == SearchReturn(found)
          IN  /\ matches' = found
              /\ search_result' = result
              /\ IF result.kind = "error"
                 THEN /\ response' = ErrorResponse(result.message)
                      /\ q_pc' = "ERROR"
                 ELSE /\ response' = response
                      /\ q_pc' = "GENERATING"
              /\ UNCHANGED faults
       \/ /\ faults' = faults \cup {"store"}
          /\ search_result' = ErrorDict("Search failed")
          /\ response' = ErrorResponse("Search failed")
          /\ q_pc' = "ERROR"
          /\ UNCHANGED matches
    /\ UNCHANGED <<q_source, distances, openai_called>>
    /\ UNCHANGED <<ingest_vars, synth_vars, search_vars, chunk_vars>>

\* ask_question from the context join to its return (query.py lines 40-63):
\* the chat completion is called directly; when it raises, the except clause
\* of the route answers 500
Generate ==
    /\ q_pc = "GENERATING"
    /\ openai_called' = TRUE
    /\ \/ /\ response' = AnswerResponse("summary", search_result.items)
          /\ q_pc' = "DONE"
          /\ UNCHANGED faults
       \/ /\ faults' = faults \cup {"llm"}
          /\ response' = ErrorResponse("An error occurred while processing the query")
          /\ q_pc' = "ERROR"
    /\ UNCHANGED <<q_source, distances, matches, search_result>>
    /\ UNCHANGED <<ingest_vars, synth_vars, search_vars, chunk_vars>>

\* -------------------------------------------------------------- retriever

\* source names are sequences of characters here, so that lower() acts on them
Doc1 == <<"d", "o", "c", "1">>
Doc1Capital == <<"D", "o", "c", "1">>
Doc1Upper == <<"D", "O", "C", "1">>
Doc2 == <<"d", "o", "c", "2">>
Unknown == <<"u", "n", "k", "n", "o", "w", "n">>

\* str.lower()
LowerChar(c) ==
    CASE c = "D" -> "d"
      [] c = "O" -> "o"
      [] c = "C" -> "c"
      [] OTHER -> c

Lower(s) == [i \in DOMAIN s |-> LowerChar(s[i])]

StoredSources == {Doc1, Doc1Capital, Doc2}
SearchContents == {"Cats are mammals.", "Dogs are mammals."}
SearchSourceParams == {<<>>, Doc1, Doc1Upper}

\* what the vector store holds for a hit: its content and metadata, the
\* metadata with or without a "source" key
StoredHits ==
    [content : SearchContents, source : StoredSources, has_source : {TRUE}]
    \cup {[content |-> "Cats are mammals.", source |-> <<>>, has_source |-> FALSE]}

\* query_similar_chunks(query, n_results): at most n_results hits, nearest
\* first, each with its similarity; rank j is given similarity 100 - 10 * j
Rankings(n) == UNION {[1..len -> StoredHits] : len \in 0..n}

QuerySimilarChunks(ranking) ==
    [j \in 1..Len(ranking) |->
        [content |-> ranking[j].content,
         metadata |-> [source |-> ranking[j].source, has_source |-> ranking[j].has_source],
         similarity |-> 100 - 10 * j]]

\* r.get("metadata", {}).get("source", "") (line 38)
SourceOrEmpty(r) == IF r.metadata.has_source THEN r.metadata.source ELSE <<>>

\* the source filter (lines 35-39), comparing the names as stored
FilterBySourceExact(found, source) ==
    IF source = <<>> THEN found
    ELSE SelectSeq(found, LAMBDA r : SourceOrEmpty(r) = source)

\* the source filter (lines 35-39)
FilterBySource(found, source) ==
    IF source = <<>> THEN found
    ELSE SelectSeq(found, LAMBDA r : Lower(SourceOrEmpty(r)) = Lower(source))

\* the loop over results with the set seen (lines 42-48), from position k
RECURSIVE DedupeFrom(_, _, _, _)
DedupeFrom(found, k, seen, kept) ==
    IF k > Len(found) THEN kept
    ELSE IF found[k].content \notin seen
         THEN DedupeFrom(found, k + 1, seen \cup {found[k].content}, Append(kept, found[k]))
         ELSE DedupeFrom(found, k + 1, seen, kept)

\* a deduplication that keeps the last occurrence of each content
DedupeKeepLast(found) ==
    LET keep == SelectSeq([k \in 1..Len(found) |-> k],
                          LAMBDA k : \A j \in (k + 1)..Len(found) :
                                        found[j].content # found[k].content)
    IN  [i \in 1..Len(keep) |-> found[keep[i]]]

\* "Deduplicate by content" (lines 41-49)
Dedupe(found) == DedupeFrom(found, 1, {}, <<>>)

\* "Format results" (lines 51-63)
FormatResults(found) ==
    [j \in 1..Len(found) |->
        [content |-> found[j].content,
         meta |-> [source |-> IF found[j].metadata.has_source
                              THEN found[j].metadata.source ELSE Unknown,
                   similarity |-> found[j].similarity]]]

IdleSearch ==
    /\ search_source = <<>>
    /\ n_results = 0
    /\ search_pc = "idle"
    /\ retrieved = <<>>
    /\ source_filtered = <<>>
    /\ deduped_results = <<>>
    /\ search_return = NoSearchResult

\* search_similar(query, source, n_results) is called
CallSearch ==
    /\ search_source \in SearchSourceParams
    /\ n_results \in 1..MaxRetrieved
    /\ search_pc = "call"
    /\ retrieved = <<>>
    /\ source_filtered = <<>>
    /\ deduped_results = <<>>
    /\ search_return = NoSearchResult

\* "results = query_similar_chunks(query, n_results=n_results)" (line 27);
\* when it raises, the except clause returns the error dict (lines 67-70)
QueryChunks ==
    /\ search_pc = "call"
    /\ \/ /\ \E ranking \in Rankings(n_results) : retrieved' = QuerySimilarChunks(ranking)
          /\ search_pc' = "queried"
          /\ UNCHANGED search_return
       \/ /\ search_return' = ErrorDict("Search failed")
          /\ search_pc' = "returned"
          /\ UNCHANGED retrieved
    /\ UNCHANGED <<search_source, n_results, source_filtered, deduped_results>>
    /\ UNCHANGED <<ingest_vars, synth_vars, query_vars, chunk_vars>>

\* search_similar from the check of results to its return (lines 30-65)
FilterDedupeReturn ==
    /\ search_pc = "queried"
    /\ IF retrieved = <<>>
       THEN /\ search_return' = ListResult(<<>>)
            /\ UNCHANGED <<source_filtered, deduped_results>>
       ELSE /\ source_filtered' = FilterBySource(retrieved, search_source)
            /\ deduped_results' = Dedupe(source_filtered')
            /\ search_return' = ListResult(FormatResults(deduped_results'))
    /\ search_pc' = "returned"
    /\ UNCHANGED <<search_source, n_results, retrieved>>
    /\ UNCHANGED <<ingest_vars, synth_vars, query_vars, chunk_vars>>

\* ---------------------------------------------------------------- chunker

Chars == {"a", "b", " ", "\n"}
IsSpace(c) == c \in {" ", "\n"}
Texts == UNION {[1..len -> Chars] : len \in 0..MaxTextLen}

\* str.split(): the maximal runs of characters that are not whitespace
RECURSIVE SplitFrom(_, _, _, _)
SplitFrom(s, k, word, found) ==
    LET closed == IF word = <<>> THEN found ELSE Append(found, word)
    IN  IF k > Len(s) THEN closed
        ELSE IF IsSpace(s[k]) THEN SplitFrom(s, k + 1, <<>>, closed)
        ELSE SplitFrom(s, k + 1, Append(word, s[k]), found)

Split(s) == SplitFrom(s, 1, <<>>, <<>>)

\* " ".join(list)
RECURSIVE Join(_)
Join(list) ==
    IF list = <<>> THEN <<>>
    ELSE IF Len(list) = 1 THEN list[1]
    ELSE list[1] \o <<" ">> \o Join(Tail(list))

\* list[i:i+size], i counted from 0
Slice(list, i, size) == SubSeq(list, i + 1, Min(i + size, Len(list)))

IdleChunk ==
    /\ text = <<>>
    /\ chunk_size = 0
    /\ chunk_pc = "idle"
    /\ words = <<>>
    /\ chunk_i = 0
    /\ text_chunks = <<>>

\* chunk_text(text, source, chunk_size) is called
CallChunkText ==
    /\ text \in Texts
    /\ chunk_size \in 1..MaxChunkSize
    /\ chunk_pc = "call"
    /\ words = <<>>
    /\ chunk_i = 0
    /\ text_chunks = <<>>

\* "words = text.split()" and "chunks = []" (lines 51-52)
SplitWords ==
    /\ chunk_pc = "call"
    /\ words' = Split(text)
    /\ chunk_i' = 0
    /\ text_chunks' = <<>>
    /\ chunk_pc' = "loop"
    /\ UNCHANGED <<text, chunk_size>>
    /\ UNCHANGED <<ingest_vars, synth_vars, query_vars, search_vars>>

\* one round of "for i in range(0, len(words), chunk_size)" (lines 53-63)
AppendChunk ==
    /\ chunk_pc = "loop"
    /\ chunk_i < Len(words)
    /\ text_chunks' = Append(text_chunks,
            [content |-> Join(Slice(words, chunk_i, chunk_size)),
             meta |-> [source |-> "doc1",
                       chunk_index |-> chunk_i \div chunk_size,
                       total_chunks |-> ChunkCount(Len(words), chunk_size)]])
    /\ chunk_i' = chunk_i + chunk_size
    /\ UNCHANGED <<text, chunk_size, chunk_pc, words>>
    /\ UNCHANGED <<ingest_vars, synth_vars, query_vars, search_vars>>

\* "return chunks" (line 64)
ChunkTextReturns ==
    /\ chunk_pc = "loop"
    /\ chunk_i >= Len(words)
    /\ chunk_pc' = "returned"
    /\ UNCHANGED <<text, chunk_size, words, chunk_i, text_chunks>>
    /\ UNCHANGED <<ingest_vars, synth_vars, query_vars, search_vars>>

\* --------------------------------------------------------- specifications

\* the ingestion of NumTasks uploaded files on one event loop
NextIngest ==
    \E t \in Tasks :
        \/ StartFile(t)
        \/ ExtractAndEnterStore(t)
        \/ AddChunk(t)
        \/ AddFails(t)
        \/ StoreReturns(t)
        \/ FileReturns(t)

InitIngest == StartIngest /\ IdleSynth /\ IdleQuery /\ IdleSearch /\ IdleChunk

SpecIngest == InitIngest /\ [][NextIngest]_vars

\* one call of summarize_themes
InitSynth == IdleIngest /\ IdleQuery /\ CallSynth /\ IdleSearch /\ IdleChunk

NextSynth == SummarizeThemes

SpecSynth == InitSynth /\ [][NextSynth]_vars

\* one request to the query route
NextQuery ==
    \/ EmbedQuery
    \/ Retrieve
    \/ Generate

InitQuery == ArriveQuery /\ IdleSynth /\ IdleSearch /\ IdleChunk

SpecQuery == InitQuery /\ [][NextQuery]_vars

\* one call of search_similar of search.py
NextSearch ==
    \/ QueryChunks
    \/ FilterDedupeReturn

InitSearch == IdleIngest /\ IdleSynth /\ IdleQuery /\ CallSearch /\ IdleChunk

SpecSearch == InitSearch /\ [][NextSearch]_vars

\* one call of chunk_text
NextChunk ==
    \/ SplitWords
    \/ AppendChunk
    \/ ChunkTextReturns

InitChunk == IdleIngest /\ IdleSynth /\ IdleQuery /\ IdleSearch /\ CallChunkText

SpecChunk == InitChunk /\ [][NextChunk]_vars

\* ------------------------------------------------------ claims: ingestion

\* C1: in every interleaving of concurrent ingestions no two collection.add
\* calls are made with the same id: the size read and the writes of the ids
\* size..size+N-1 of one ingestion are not interleaved with another's.
C1_NoIdCollision ==
    \A a, b \in 1..Len(added_ids) : a # b => added_ids[a][1] # added_ids[b][1]

\* two ingestions of different files have both written records
C1_Witness ==
    \E a, b \in 1..Len(added_ids) : added_ids[a][2] # added_ids[b][2]

\* C2: after any number of ingestions that together stored M fragments into
\* the initially empty collection, the stored ids are exactly 0..M-1.
C2_ContiguousIds ==
    StoredIds(collection) = {k - 1 : k \in 1..Len(added_ids)}

\* two ingestions have returned from store_text_chunks and three or more
\* fragments are stored
C2_Witness ==
    /\ Cardinality({t \in Tasks : store_result[t].status # "none"}) >= 2
    /\ Len(added_ids) >= 3
    /\ \E a, b \in 1..Len(added_ids) : added_ids[a][2] # added_ids[b][2]

\* ---------------------------------------------------- claims: synthesizer

RECURSIVE SumTokens(_, _)
SumTokens(parts, k) ==
    IF k > Len(parts) THEN 0
    ELSE Max(1, Len(parts[k]) \div 4) + SumTokens(parts, k + 1)

IsStrictPrefix(p, content) ==
    /\ Len(p) < Len(content)
    /\ p = SubSeq(content, 1, Len(p))

\* the chunks the packing loop iterates over
Considered == SubSeq(sorted_results, 1, Min(Len(sorted_results), 10))

\* estimated tokens of the first k chunks considered, each taken whole
RECURSIVE WholeTokens(_)
WholeTokens(k) ==
    IF k = 0 THEN 0
    ELSE Max(1, Len(Considered[k].content) \div 4) + WholeTokens(k - 1)

\* chunk k is the first one that does not fit the budget whole
FirstOverflow(k) ==
    /\ WholeTokens(k) > max_tokens
    /\ WholeTokens(k - 1) <= max_tokens

\* C3: the packed context never exceeds max_tokens estimated tokens, and of
\* the first fragment that would overflow the budget only a strict prefix is
\* included, never its full text.
C3_TokenBudget ==
    synth_pc = "returned" =>
        /\ SumTokens(context_parts, 1) <= max_tokens
        /\ \A k \in 1..Len(Considered) :
            FirstOverflow(k) =>
                /\ Len(context_parts) <= k
                /\ Len(context_parts) = k => IsStrictPrefix(context_parts[k], Considered[k].content)

\* whole fragments were packed and then a prefix of the one that overflowed
C3_Witness ==
    /\ synth_pc = "returned"
    /\ \E k \in 2..Len(Considered) :
        /\ FirstOverflow(k)
        /\ Len(context_parts) = k
        /\ context_parts[k] # <<>>
        /\ SumTokens(context_parts, 1) = max_tokens

\* the threshold the spec states, in hundredths
StatedThreshold(res) == IF Len(res) <= 10 THEN 20 ELSE 35

\* C4: with 10 or fewer results exactly the results of similarity >= 0.20 are
\* kept, with 11 or more exactly those of similarity >= 0.35.
C4_ThresholdSwitch ==
    (synth_pc = "returned" /\ results # <<>>) =>
        filtered_results =
            SelectSeq(results, LAMBDA r : r.meta.similarity >= StatedThreshold(results))

\* eleven results, one of them of similarity in [0.20, 0.35) and dropped
C4_Witness ==
    /\ synth_pc = "returned"
    /\ Len(results) = 11
    /\ \E i \in 1..Len(results) :
        /\ results[i].meta.similarity >= 20
        /\ results[i].meta.similarity < 35
        /\ \A k \in 1..Len(filtered_results) : filtered_results[k] # results[i]
    /\ filtered_results # <<>>

NoSurvivor ==
    /\ results # <<>>
    /\ \A i \in 1..Len(results) : results[i].meta.similarity < StatedThreshold(results)

\* C5 as stated: when no result reaches the threshold the synthesizer still
\* answers from the single highest-similarity result.
C5_BestEffortAnswer ==
    (synth_pc = "returned" /\ NoSurvivor) =>
        /\ llm_called
        /\ Len(sorted_results) = 1
        /\ \A i \in 1..Len(results) :
            results[i].meta.similarity <= sorted_results[1].meta.similarity

\* C5 amended: when no result reaches the threshold the synthesizer returns
\* the answer "No relevant information found above similarity threshold."
\* with an empty sources list, and does not call the language model.
C5_NoSurvivorOutcome ==
    (synth_pc = "returned" /\ NoSurvivor) =>
        /\ ~llm_called
        /\ outcome.answer = Plain(<<"No relevant information found above similarity threshold.">>)
        /\ outcome.sources = [is_none |-> FALSE, list |-> <<>>]

\* summarize_themes returned for three results, none reaching the threshold
C5_Witness ==
    /\ synth_pc = "returned"
    /\ NoSurvivor
    /\ Len(results) >= 3

HasApiErrorMarker(answer) == \E k \in 1..Len(answer) : answer[k][2] = "API Error."

\* C6: when the model call fails after context was assembled, the outcome
\* holds the API-error marker and a non-empty sources list; when no context
\* was assembled the sources list is empty.
C6_FallbackOnFailure ==
    synth_pc = "returned" =>
        /\ (llm_called /\ llm = "raises") =>
            /\ context_parts # <<>>
            /\ HasApiErrorMarker(outcome.answer)
            /\ ~outcome.sources.is_none
            /\ outcome.sources.list # <<>>
        /\ context_parts = <<>> =>
            /\ ~outcome.sources.is_none
            /\ outcome.sources.list = <<>>

\* the model call failed with two fragments in the context
C6_Witness ==
    /\ synth_pc = "returned"
    /\ llm_called
    /\ llm = "raises"
    /\ Len(context_parts) >= 2

\* C7: when the model call succeeds, sources is the list of {source,
\* similarity} of the ranked survivors considered, never null.
C7_SourcesOnSuccess ==
    (synth_pc = "returned" /\ llm_called /\ llm = "text") =>
        /\ ~outcome.sources.is_none
        /\ outcome.sources.list =
            [k \in 1..Len(Considered) |-> [source |-> Considered[k].meta.source,
                                           similarity |-> Considered[k].meta.similarity]]

\* ---------------------------------------------------- claims: query route

QueryOver == q_pc \in {"DONE", "ERROR", "FALLBACK"}

\* C8: a query issued while the store holds no fragment, with no service
\* failing, returns the answer "No relevant information found." with empty
\* sources, and the language model is not called.
C8_EmptyStoreAnswer ==
    (QueryOver /\ collection = <<>> /\ faults = {}) =>
        /\ ~openai_called
        /\ response.status_code = 200
        /\ response.answer = "No relevant information found."
        /\ response.sources = <<>>

\* C9: the query ends in ERROR only from EMBEDDING or RETRIEVING and in
\* FALLBACK only from GENERATING; a failing language-model call ends it in
\* FALLBACK, never in ERROR.
C9_ErrorOnlyBeforeGenerating ==
    [][ /\ (q_pc' = "ERROR" /\ q_pc # "ERROR") => q_pc \in {"EMBEDDING", "RETRIEVING"}
        /\ (q_pc' = "FALLBACK" /\ q_pc # "FALLBACK") => q_pc = "GENERATING"
        /\ (q_pc = "GENERATING" /\ "llm" \in faults') => q_pc' = "FALLBACK" ]_vars

\* C10: when the store returns zero matches, search returns the empty
\* sequence and not an error value.
C10_ZeroMatchesEmptyList ==
    (q_pc # "EMBEDDING" /\ q_pc # "RETRIEVING" /\ faults \cap {"embedding", "store"} = {}
        /\ matches = <<>>) =>
        /\ search_result.kind = "list"
        /\ search_result.items = <<>>

\* ------------------------------------------- claims: ingestion failures

\* store_text_chunks of task t ended in its except clause at chunk idx[t]
StoreFailedAt(t) ==
    /\ pc[t] \in {"stored", "done"}
    /\ store_result[t].status # "none"
    /\ idx[t] < n_chunks[t]

\* C14 as stated: when the add or the embedding of a chunk fails during the
\* ingestion of a file, the file is reported as failed, never with status
\* success and a chunk count.
C14_StoreFailureReported ==
    \A t \in Tasks :
        (pc[t] = "done" /\ StoreFailedAt(t)) =>
            /\ file_result[t].status = "failed"
            /\ file_result[t].chunks = 0

\* C18: when the ingestion of chunks c_0..c_{n-1} fails at chunk c_j, the
\* records written for c_0..c_{j-1} stay in the store unchanged, no record of
\* c_j..c_{n-1} is written, and store_text_chunks returns the error status.
C18_NoRollback ==
    \A t \in Tasks :
        StoreFailedAt(t) =>
            /\ store_result[t].status = "error"
            /\ \A i \in 0..(n_chunks[t] - 1) :
                IF i < idx[t]
                THEN /\ (current_size[t] + i) \in DOMAIN collection
                     /\ collection[current_size[t] + i].content = ChunkContent(t, i)
                ELSE \A id \in DOMAIN collection : collection[id].content # ChunkContent(t, i)

\* an ingestion failed at its second chunk and another ingestion has written
\* records after it
C18_Witness ==
    \E t, u \in Tasks :
        /\ t # u
        /\ StoreFailedAt(t)
        /\ idx[t] >= 1
        /\ \E k \in 1..Len(added_ids) :
            added_ids[k][2] = u /\ added_ids[k][1] > current_size[t]

\* ------------------------------------------------ claims: packing order

\* the list is in descending similarity
IsDescending(list) ==
    \A i, j \in 1..Len(list) : i < j => list[i].meta.similarity >= list[j].meta.similarity

\* C17: the packed context is a prefix of the similarity-descending survivor
\* list: fragments are included whole in rank order, of the first fragment
\* that would overflow only a prefix sized to the remaining budget is
\* included, and no fragment ranked after it is included.
C17_PackedPrefix ==
    synth_pc = "returned" =>
        /\ IsDescending(sorted_results)
        /\ Len(context_parts) <= Len(Considered)
        /\ \A k \in 1..Len(Considered) :
            /\ WholeTokens(k) <= max_tokens =>
                /\ Len(context_parts) >= k
                /\ context_parts[k] = Considered[k].content
            /\ FirstOverflow(k) =>
                LET remaining == max_tokens - WholeTokens(k - 1) IN
                IF remaining > 0
                THEN /\ Len(context_parts) = k
                     /\ context_parts[k] = SubSeq(Considered[k].content, 1, remaining * 4)
                ELSE Len(context_parts) = k - 1

\* a fragment overflowed and was cut, and the next one in rank order, small
\* enough to fit where the cut one stands, is left out
C17_Witness ==
    /\ synth_pc = "returned"
    /\ \E k \in 1..Len(Considered) :
        /\ FirstOverflow(k)
        /\ Len(context_parts) = k
        /\ k < Len(Considered)
        /\ WholeTokens(k - 1) + Max(1, Len(Considered[k + 1].content) \div 4) <= max_tokens

\* ------------------------------------------------ claims: empty uploads

StatusMessages == {NoTextMessage, UnsupportedMessage}

\* C15 as stated: a file whose extracted text is empty or whitespace-only, or
\* whose format the extractor does not support, yields no fragment and adds no
\* record; no extractor status message is ever stored as fragment content.
C15_NothingStoredForEmptyText ==
    /\ \A t \in Tasks :
        upload[t].kind \in {"blank", "unsupported"} =>
            /\ n_chunks[t] = 0
            /\ \A k \in 1..Len(added_ids) : added_ids[k][2] # t
    /\ \A id \in DOMAIN collection : collection[id].content[3] \notin StatusMessages


\* ----------------------------------------------------- claims: retriever

\* the elements of list at the given positions, in the order of the list
PickAt(list, positions) ==
    [j \in 1..Cardinality(positions) |->
        list[CHOOSE p \in positions : Cardinality({q \in positions : q < p}) = j - 1]]

FirstOccurrences(list) ==
    {i \in 1..Len(list) : \A j \in 1..(i - 1) : list[j].content # list[i].content}

CasePairs == {<<"d", "D">>, <<"o", "O">>, <<"c", "C">>}

EqualIgnoringCase(a, b) ==
    /\ Len(a) = Len(b)
    /\ \A i \in 1..Len(a) :
        a[i] = b[i] \/ <<a[i], b[i]>> \in CasePairs \/ <<b[i], a[i]>> \in CasePairs

Matching ==
    {i \in 1..Len(retrieved) :
        retrieved[i].metadata.has_source
        /\ EqualIgnoringCase(retrieved[i].metadata.source, search_source)}

C13_SimilarityInRange ==
    search_result.kind = "list" =>
        \A i \in 1..Len(search_result.items) :
            /\ search_result.items[i].meta.similarity >= 0
            /\ search_result.items[i].meta.similarity <= 100

\* ------------------------------------------------------- claims: chunker

RECURSIVE Flatten(_)
Flatten(lists) ==
    IF lists = <<>> THEN <<>> ELSE Head(lists) \o Flatten(Tail(lists))

\* C16: the fragments chunk_text returns are runs of at least one and at most
\* chunk_size words, which put one after the other are the words of the text;
\* fragment i (from 0) has chunk_index i; every fragment has total_chunks equal
\* to the number of fragments, hence chunk_index < total_chunks.
C16_ChunkRuns ==
    chunk_pc = "returned" =>
        /\ Flatten([j \in 1..Len(text_chunks) |-> Split(text_chunks[j].content)]) = Split(text)
        /\ \A j \in 1..Len(text_chunks) :
            /\ Len(Split(text_chunks[j].content)) \in 1..chunk_size
            /\ text_chunks[j].meta.chunk_index = j - 1
            /\ text_chunks[j].meta.total_chunks = Len(text_chunks)
            /\ text_chunks[j].meta.chunk_index < text_chunks[j].meta.total_chunks

\* a text whose words do not fill the last fragment, and whose whitespace
\* is not one blank between every two words
C16_Witness ==
    /\ chunk_pc = "returned"
    /\ Len(text_chunks) >= 2
    /\ Len(Split(text_chunks[Len(text_chunks)].content)) < chunk_size
    /\ text # Join(Split(text))

====
